---- MODULE Spec2Model ----
(***************************************************************************)
(* Model of src/app.py: the "Chat with MySQL" assistant.                   *)
(*                                                                         *)
(* A Python str is a sequence of characters (one-character TLA+ strings).  *)
(* The fixed text of an f-string is kept as one multi-character element,   *)
(* so formatting is concatenation and "contains" is a sub-sequence test.   *)
(***************************************************************************)
EXTENDS Integers, Sequences, FiniteSets, TLC

VARIABLES
    chat_history,   \* st.session_state.chat_history
    db,             \* whether st.session_state.db is set
    user_query,     \* the chat input / get_response's user_query
    pc,             \* position of the script and of get_response
    exc,            \* str(e) of the exception that left get_response
    ret,            \* the value get_response returned
    query,          \* vars["query"]: the text the SQL chain produced
    schema,         \* the schema text of the latest get_table_info()
    response,       \* the value execute_sql_and_get_response returned
    validated,      \* outcome of validate_sql_query inside the executor
    tA,             \* worker computing schema=... of the second assign
    tB,             \* worker computing response=... of the second assign
    trace           \* the collaborators' call log of the current call

vars == <<chat_history, db, user_query, pc, exc, ret, query, schema,
          response, validated, tA, tB, trace>>

\* Python's None (never a value of any input set below).
None == <<"<None>">>

-----------------------------------------------------------------------------
\* Bounds of the model.

\* longest generated text handed to the executor
MaxRawLen == 5
\* longest generated question
MaxQLen == 3
\* non-blank chat inputs per session
MaxTurns == 2

-----------------------------------------------------------------------------
\* str methods.

\* the characters str.strip() removes (the ASCII ones)
Whitespace == {" ", "\t", "\n", "\r", "\f"}

LowerLetters == <<"a","b","c","d","e","f","g","h","i","j","k","l","m",
                  "n","o","p","q","r","s","t","u","v","w","x","y","z">>

UpperLetters == <<"A","B","C","D","E","F","G","H","I","J","K","L","M",
                  "N","O","P","Q","R","S","T","U","V","W","X","Y","Z">>

upper_char(c) ==
    IF \E i \in 1..26 : LowerLetters[i] = c
    THEN UpperLetters[CHOOSE i \in 1..26 : LowerLetters[i] = c]
    ELSE c

lower_char(c) ==
    IF \E i \in 1..26 : UpperLetters[i] = c
    THEN LowerLetters[CHOOSE i \in 1..26 : UpperLetters[i] = c]
    ELSE c

upper(s) == [i \in 1..Len(s) |-> upper_char(s[i])]

lower(s) == [i \in 1..Len(s) |-> lower_char(s[i])]

RECURSIVE lstrip(_)
lstrip(s) ==
    IF s # <<>> /\ Head(s) \in Whitespace THEN lstrip(Tail(s)) ELSE s

RECURSIVE rstrip(_)
rstrip(s) ==
    IF s # <<>> /\ s[Len(s)] \in Whitespace
    THEN rstrip(SubSeq(s, 1, Len(s) - 1))
    ELSE s

strip(s) == rstrip(lstrip(s))

startswith(s, prefix) ==
    Len(s) >= Len(prefix) /\ SubSeq(s, 1, Len(prefix)) = prefix

\* Python's `word in s`
contains(s, word) ==
    \E i \in 0..(Len(s) - Len(word)) : SubSeq(s, i + 1, i + Len(word)) = word

\* all sequences over `alphabet` of length at most n
BoundedSeq(alphabet, n) == UNION {[1..k -> alphabet] : k \in 0..n}

-----------------------------------------------------------------------------
\* validate_sql_query

valid_keywords ==
    << <<"S","E","L","E","C","T">>, <<"I","N","S","E","R","T">>,
       <<"U","P","D","A","T","E">>, <<"D","E","L","E","T","E">>,
       <<"C","R","E","A","T","E">>, <<"D","R","O","P">>,
       <<"A","L","T","E","R">>,     <<"W","I","T","H">> >>

InvalidQueryError(q) == <<"Invalid SQL query generated: ">> \o q

\* A validator that tests the prefix on the text as written, not upper-cased.
validate_sql_query_case_sensitive(query_) ==
    LET q == strip(query_) IN
    IF ~ \E k \in 1..Len(valid_keywords) : startswith(q, valid_keywords[k])
    THEN [raised |-> TRUE, value |-> InvalidQueryError(q)]
    ELSE [raised |-> FALSE, value |-> q]

\* [raised |-> TRUE, value |-> str(e)] for `raise ValueError(...)`,
\* [raised |-> FALSE, value |-> the returned text] otherwise
validate_sql_query(query_) ==
    LET q == strip(query_) IN
    IF ~ \E k \in 1..Len(valid_keywords) :
           startswith(upper(q), valid_keywords[k])
    THEN [raised |-> TRUE, value |-> InvalidQueryError(q)]
    ELSE [raised |-> FALSE, value |-> q]

-----------------------------------------------------------------------------
\* The collaborators (mocked: every outcome the call can have).

\* what db.run can return: SQLDatabase.run gives the rows as text
DbResults == { <<"[(42,)]">>, <<>> }

\* str(e) of what db.run can raise
DbErrors == { <<"(1146) Table 'x' doesn't exist">> }

\* what db.get_table_info() can return
SchemaTexts == { <<"CREATE TABLE users (id INT, name TEXT)">> }

\* str(e) of what db.get_table_info() can raise
SchemaErrors == { <<"(2013) Lost connection to MySQL server">> }

\* str(e) of what a ChatGroq call, or building the chains, can raise
LlmErrors == { <<"Error code: 401 - Invalid API Key">> }

\* what the answer chain's model can return
Answers == { <<"There are 42 users.">> }

\* completions the SQL chain's model can return
SynthOutputs ==
    { <<"S","E","L","E","C","T"," ","C","O","U","N","T","(","*",")"," ",
        "F","R","O","M"," ","u","s","e","r","s">>,
      <<" "," ","s","e","l","e","c","t"," ","*"," ","f","r","o","m"," ",
        "u","s","e","r","s","\n">>,
      <<"H","e","r","e"," ","i","s"," ","t","h","e"," ","q","u","e","r","y",
        ":"," ","S","E","L","E","C","T"," ","*"," ","F","R","O","M"," ",
        "u","s","e","r","s">>,
      <<>> }

\* texts the executor is called with directly
RawAlphabet == {" ", "w", "I", "t", "H"}

CuratedRaw ==
    SynthOutputs \cup
    { <<"D","R","O","P"," ","T","A","B","L","E"," ","x">>,
      <<"I","n","s","e","r","t"," ","i","n","t","o"," ","t"," ","v","a","l",
        "u","e","s"," ","(","1",")">>,
      <<"u","p","d","a","t","e"," ","t"," ","s","e","t"," ","a","=","1">>,
      <<"\t","D","E","L","E","T","E"," ","F","R","O","M"," ","t","\r","\n">>,
      <<"c","r","e","a","t","e"," ","t","a","b","l","e"," ","t","(","a"," ",
        "i","n","t",")">>,
      <<"A","l","t","e","r"," ","t","a","b","l","e"," ","t">>,
      <<"W","I","T","H"," ","c"," ","A","S"," ","(","S","E","L","E","C","T",
        " ","1",")"," ","S","E","L","E","C","T"," ","*"," ","F","R","O","M",
        " ","c">>,
      <<"W","I","T","H","O","U","T">>,
      <<"S","E","L","E","C">>,
      <<" ","\n"," ">>,
      <<"-","-"," ","q","\n","S","E","L","E","C","T"," ","1">> }

RawStrings == BoundedSeq(RawAlphabet, MaxRawLen) \cup CuratedRaw

\* one entry of the call log
Event(op, ph, val) == [op |-> op, ph |-> ph, val |-> val]

-----------------------------------------------------------------------------
\* execute_sql_and_get_response, run by the worker tB.

ExecError(e) == <<"Error executing SQL query: ">> \o e

\* An except clause that lets the exception leave the function.
exec_except_reraise(e) == [raised |-> TRUE, value |-> e]

\* lines 31-33: `except Exception as e` returns the error as a value
exec_except(e) == [raised |-> FALSE, value |-> ExecError(e)]

\* line 27: query = validate_sql_query(query); a ValueError goes to line 31
ExecValidate ==
    /\ tB = "ready"
    /\ LET v == validate_sql_query(query) IN
       /\ validated' = v
       /\ trace' = Append(trace,
                     Event("validate", IF v.raised THEN "raise" ELSE "return",
                           v.value))
       /\ IF v.raised
          THEN LET out == exec_except(v.value) IN
               /\ response' = out.value
               /\ tB' = IF out.raised THEN "raised" ELSE "done"
          ELSE response' = response /\ tB' = "run"
    /\ UNCHANGED <<chat_history, db, user_query, pc, exc, ret, query, schema, tA>>

\* An executor that runs the text as synthesized, not the validated one.
DbRunCall_raw ==
    /\ tB = "run"
    /\ trace' = Append(trace, Event("db.run", "call", query))
    /\ tB' = "running"
    /\ UNCHANGED <<chat_history, db, user_query, pc, exc, ret, query, schema,
                   response, validated, tA>>

\* line 28: db.run(query) is entered
DbRunCall ==
    /\ tB = "run"
    /\ trace' = Append(trace, Event("db.run", "call", validated.value))
    /\ tB' = "running"
    /\ UNCHANGED <<chat_history, db, user_query, pc, exc, ret, query, schema,
                   response, validated, tA>>

\* An executor that tries a failed statement again.
DbRunEnd_retry ==
    /\ tB = "running"
    /\ \/ \E r \in DbResults :
            /\ trace' = Append(trace, Event("db.run", "return", r))
            /\ response' = r
            /\ tB' = "done"
       \/ \E e \in DbErrors :
            /\ trace' = Append(trace, Event("db.run", "raise", e))
            /\ response' = response
            /\ tB' = "run"
    /\ UNCHANGED <<chat_history, db, user_query, pc, exc, ret, query, schema,
                   validated, tA>>

\* lines 28-33: db.run returns and its value is returned, or it raises and
\* the except clause makes the error text
DbRunEnd ==
    /\ tB = "running"
    /\ \/ \E r \in DbResults :
            /\ trace' = Append(trace, Event("db.run", "return", r))
            /\ response' = r
            /\ tB' = "done"
       \/ \E e \in DbErrors :
            /\ trace' = Append(trace, Event("db.run", "raise", e))
            /\ LET out == exec_except(e) IN
               /\ response' = out.value
               /\ tB' = IF out.raised THEN "raised" ELSE "done"
    /\ UNCHANGED <<chat_history, db, user_query, pc, exc, ret, query, schema,
                   validated, tA>>

-----------------------------------------------------------------------------
\* get_response

praising_words ==
    << <<"o","k">>, <<"t","h","a","n","k"," ","y","o","u">>,
       <<"t","h","a","n","k","s">>, <<"g","r","e","a","t">>,
       <<"a","w","e","s","o","m","e">>, <<"n","i","c","e">>,
       <<"w","e","l","l"," ","d","o","n","e">>, <<"c","o","o","l">> >>

\* line 72 (the reply ends with a smiling-face emoji)
CourtesyReply == <<"You're welcome! I'm here to help. ", "<emoji>">>

\* A courtesy test that wants the phrase to be the whole question.
is_praise_whole(q) ==
    \E k \in 1..Len(praising_words) : lower(q) = praising_words[k]

\* line 71: any(word in user_query.lower() for word in praising_words)
is_praise(q) ==
    \E k \in 1..Len(praising_words) : contains(lower(q), praising_words[k])

\* line 112
ChainError(e) == <<"Error in chain invocation: ">> \o e

\* get_response's locals, gone when the call is over
NoLocals ==
    /\ query' = None
    /\ schema' = None
    /\ response' = None
    /\ validated' = None
    /\ tA' = "idle"
    /\ tB' = "idle"

\* lines 68-72: entry, and the courtesy short-circuit
GetResponse ==
    /\ pc = "called"
    /\ trace' = <<>>
    /\ IF is_praise(user_query)
       THEN ret' = CourtesyReply /\ pc' = "done"
       ELSE ret' = ret /\ pc' = "setup"
    /\ UNCHANGED <<chat_history, db, user_query, exc, query, schema, response,
                   validated, tA, tB>>

\* lines 73-101: get_sql_chain(db), the templates and both ChatGroq clients
\* are built before the try of line 104
BuildChains ==
    /\ pc = "setup"
    /\ \/ pc' = "invoke" /\ exc' = exc
       \/ \E e \in LlmErrors : pc' = "raised" /\ exc' = e
    /\ UNCHANGED <<chat_history, db, user_query, ret, query, schema, response,
                   validated, tA, tB, trace>>

\* lines 57-61: the SQL chain's assign(schema=get_schema) calls
\* db.get_table_info()
SqlSchemaCall ==
    /\ pc = "invoke"
    /\ trace' = Append(trace, Event("get_table_info", "call", <<>>))
    /\ pc' = "schema1"
    /\ UNCHANGED <<chat_history, db, user_query, exc, ret, query, schema,
                   response, validated, tA, tB>>

\* db.get_table_info() returns, or raises into the except of line 111
SqlSchemaEnd ==
    /\ pc = "schema1"
    /\ \/ \E s \in SchemaTexts :
            /\ trace' = Append(trace, Event("get_table_info", "return", s))
            /\ schema' = s
            /\ pc' = "llm1"
            /\ ret' = ret
       \/ \E e \in SchemaErrors :
            /\ trace' = Append(trace, Event("get_table_info", "raise", e))
            /\ schema' = schema
            /\ ret' = ChainError(e)
            /\ pc' = "done"
    /\ UNCHANGED <<chat_history, db, user_query, exc, query, response,
                   validated, tA, tB>>

\* lines 62-63: the SQL prompt (schema, question) is sent to the model
SqlLlmCall ==
    /\ pc = "llm1"
    /\ trace' = Append(trace, Event("llm_sql", "call", <<schema, user_query>>))
    /\ pc' = "llm1_wait"
    /\ UNCHANGED <<chat_history, db, user_query, exc, ret, query, schema,
                   response, validated, tA, tB>>

\* lines 63-64 and 94: the completion becomes vars["query"], or the call
\* raises into the except of line 111. The second assign then starts its two
\* steps (schema, response) on a thread pool.
SqlLlmEnd ==
    /\ pc = "llm1_wait"
    /\ \/ \E q \in SynthOutputs :
            /\ trace' = Append(trace, Event("llm_sql", "return", q))
            /\ query' = q
            /\ pc' = "fork"
            /\ tA' = "ready"
            /\ tB' = "ready"
            /\ ret' = ret
       \/ \E e \in LlmErrors :
            /\ trace' = Append(trace, Event("llm_sql", "raise", e))
            /\ query' = query
            /\ UNCHANGED <<tA, tB>>
            /\ ret' = ChainError(e)
            /\ pc' = "done"
    /\ UNCHANGED <<chat_history, db, user_query, exc, schema, response,
                   validated>>

\* line 95: schema=lambda _: db.get_table_info(), on its worker
AnswerSchemaCall ==
    /\ tA = "ready"
    /\ trace' = Append(trace, Event("get_table_info", "call", <<>>))
    /\ tA' = "running"
    /\ UNCHANGED <<chat_history, db, user_query, pc, exc, ret, query, schema,
                   response, validated, tB>>

\* line 95: the worker's db.get_table_info() returns or raises
AnswerSchemaEnd ==
    /\ tA = "running"
    /\ \/ \E s \in SchemaTexts :
            /\ trace' = Append(trace, Event("get_table_info", "return", s))
            /\ schema' = s
            /\ tA' = "done"
            /\ exc' = exc
       \/ \E e \in SchemaErrors :
            /\ trace' = Append(trace, Event("get_table_info", "raise", e))
            /\ schema' = schema
            /\ tA' = "raised"
            /\ exc' = e
    /\ UNCHANGED <<chat_history, db, user_query, pc, ret, query, response,
                   validated, tB>>

\* lines 94-97: the assign has both steps' outcomes once both workers have
\* ended; a step's exception (schema's first) is raised again into the except
\* of line 111
AssignJoin ==
    /\ pc = "fork"
    /\ tA \in {"done", "raised"}
    /\ tB \in {"done", "raised"}
    /\ IF tA = "raised"
       THEN ret' = ChainError(exc) /\ pc' = "done"
       ELSE IF tB = "raised"
            THEN ret' = ChainError(response) /\ pc' = "done"
            ELSE ret' = ret /\ pc' = "llm2"
    /\ UNCHANGED <<chat_history, db, user_query, exc, query, schema, response,
                   validated, tA, tB, trace>>

\* An answer prompt that is given the validated (stripped) statement.
AnswerLlmCall_validated ==
    /\ pc = "llm2"
    /\ trace' = Append(trace, Event("llm_answer", "call",
                    <<schema, user_query,
                      IF validated.raised THEN query ELSE validated.value,
                      response>>))
    /\ pc' = "llm2_wait"
    /\ UNCHANGED <<chat_history, db, user_query, exc, ret, query, schema,
                   response, validated, tA, tB>>

\* lines 98-99: the answer prompt (schema, question, query, response) is sent
AnswerLlmCall ==
    /\ pc = "llm2"
    /\ trace' = Append(trace, Event("llm_answer", "call",
                    <<schema, user_query, query, response>>))
    /\ pc' = "llm2_wait"
    /\ UNCHANGED <<chat_history, db, user_query, exc, ret, query, schema,
                   response, validated, tA, tB>>

\* lines 99-114: the answer is returned, or the call raises into line 111
AnswerLlmEnd ==
    /\ pc = "llm2_wait"
    /\ \/ \E a \in Answers :
            /\ trace' = Append(trace, Event("llm_answer", "return", a))
            /\ ret' = a
       \/ \E e \in LlmErrors :
            /\ trace' = Append(trace, Event("llm_answer", "raise", e))
            /\ ret' = ChainError(e)
    /\ pc' = "done"
    /\ UNCHANGED <<chat_history, db, user_query, exc, query, schema, response,
                   validated, tA, tB>>

Pipeline ==
    \/ GetResponse
    \/ BuildChains
    \/ SqlSchemaCall
    \/ SqlSchemaEnd
    \/ SqlLlmCall
    \/ SqlLlmEnd
    \/ AnswerSchemaCall
    \/ AnswerSchemaEnd
    \/ ExecValidate
    \/ DbRunCall
    \/ DbRunEnd
    \/ AssignJoin
    \/ AnswerLlmCall
    \/ AnswerLlmEnd

-----------------------------------------------------------------------------
\* The Streamlit script.

Human(text) == [role |-> "Human", content |-> text]

AI(text) == [role |-> "AI", content |-> text]

\* line 120
Greeting ==
    AI(<<"Hello! I'm a SQL assistant. Ask me anything about your database.">>)

\* str(e) of the AttributeError for st.session_state.db before any Connect
NoDbError == <<"st.session_state has no attribute \"db\"">>

\* what the user can type
ChatInputs ==
    { <<" "," ">>,
      <<"t","h","a","n","k","s","!">>,
      <<"l","o","o","k"," ","u","p"," ","b","o","b">>,
      <<"h","o","w"," ","m","a","n","y"," ","u","s","e","r","s"," ","a","r",
        "e"," ","t","h","e","r","e","?">> }

Turns == (Len(chat_history) - 1) \div 2

\* lines 136-149: the Connect button
Connect ==
    /\ pc = "idle"
    /\ \E ok \in BOOLEAN : db' = (ok \/ db)
    /\ UNCHANGED <<chat_history, user_query, pc, exc, ret, query, schema,
                   response, validated, tA, tB, trace>>

\* lines 159-168: the chat input; a message is appended as a Human turn and
\* get_response is called with st.session_state.db (an AttributeError when
\* there is none)
ChatInput ==
    /\ pc = "idle"
    /\ \E inp \in ChatInputs \cup {None} :
         /\ user_query' = inp
         /\ IF inp # None /\ strip(inp) # <<>>
            THEN /\ Turns < MaxTurns
                 /\ chat_history' = Append(chat_history, Human(inp))
                 /\ IF db
                    THEN pc' = "called" /\ exc' = exc
                    ELSE pc' = "raised" /\ exc' = NoDbError
            ELSE UNCHANGED <<chat_history, pc, exc>>
    /\ UNCHANGED <<db, ret, query, schema, response, validated, tA, tB, trace>>

\* lines 168-173: get_response returned; its value is the Assistant turn
HandlerReturn ==
    /\ pc = "done"
    /\ chat_history' = Append(chat_history, AI(ret))
    /\ pc' = "idle"
    /\ ret' = None
    /\ exc' = None
    /\ trace' = <<>>
    /\ NoLocals
    /\ UNCHANGED <<db, user_query>>

\* An except branch that shows the error but appends no turn.
HandlerExcept_no_append ==
    /\ pc = "raised"
    /\ chat_history' = chat_history
    /\ pc' = "idle"
    /\ exc' = None
    /\ trace' = <<>>
    /\ NoLocals
    /\ UNCHANGED <<db, user_query, ret>>

\* lines 174-179: an exception left the try; "Error: ..." is the Assistant turn
HandlerExcept ==
    /\ pc = "raised"
    /\ chat_history' = Append(chat_history, AI(<<"Error: ">> \o exc))
    /\ pc' = "idle"
    /\ exc' = None
    /\ trace' = <<>>
    /\ NoLocals
    /\ UNCHANGED <<db, user_query, ret>>

\* lines 118-121: a new session
Init ==
    /\ chat_history = <<Greeting>>
    /\ db = FALSE
    /\ user_query = None
    /\ pc = "idle"
    /\ exc = None
    /\ ret = None
    /\ query = None
    /\ schema = None
    /\ response = None
    /\ validated = None
    /\ tA = "idle"
    /\ tB = "idle"
    /\ trace = <<>>

Next == Connect \/ ChatInput \/ HandlerReturn \/ HandlerExcept \/ Pipeline

Spec == Init /\ [][Next]_vars

-----------------------------------------------------------------------------
\* get_response(question, db, history) called once, with mocked
\* collaborators, for each question.

QAlphabet == {"o", "K", "x", " "}

CuratedQuestions ==
    ChatInputs \cup
    { <<"T","h","a","n","k"," ","Y","o","u">>,
      <<"W","E","L","L"," ","D","O","N","E">>,
      <<"b","o","o","k","s"," ","p","e","r"," ","a","u","t","h","o","r">>,
      <<"l","i","s","t"," ","a","l","l"," ","u","s","e","r","s">>,
      <<"g","r","e","a","t">>, <<"A","w","e","s","o","m","e","!">>,
      <<"n","i","c","e">>, <<"c","o","o","l">> }

Questions == BoundedSeq(QAlphabet, MaxQLen) \cup CuratedQuestions

InitCall ==
    /\ user_query \in Questions
    /\ pc = "called"
    /\ chat_history \in { <<Greeting>>,
                          <<Greeting, Human(<<"h","i">>), AI(<<"Hello.">>)>> }
    /\ db = TRUE
    /\ exc = None
    /\ ret = None
    /\ query = None
    /\ schema = None
    /\ response = None
    /\ validated = None
    /\ tA = "idle"
    /\ tB = "idle"
    /\ trace = <<>>

SpecCall == InitCall /\ [][Pipeline]_vars

-----------------------------------------------------------------------------
\* execute_sql_and_get_response(db, q) called on its own, for each text q.

InitExec ==
    /\ query \in RawStrings
    /\ tB = "ready"
    /\ tA = "idle"
    /\ pc = "direct"
    /\ chat_history = <<Greeting>>
    /\ db = TRUE
    /\ user_query = None
    /\ exc = None
    /\ ret = None
    /\ schema = None
    /\ response = None
    /\ validated = None
    /\ trace = <<>>

NextExec == ExecValidate \/ DbRunCall \/ DbRunEnd

SpecExec == InitExec /\ [][NextExec]_vars

-----------------------------------------------------------------------------
\* Reading the call log.

Calls(op) == {i \in DOMAIN trace : trace[i].op = op /\ trace[i].ph = "call"}

Returns(op) == {i \in DOMAIN trace : trace[i].op = op /\ trace[i].ph = "return"}

Raises(op) == {i \in DOMAIN trace : trace[i].op = op /\ trace[i].ph = "raise"}

Ends(op) == Returns(op) \cup Raises(op)

InProgress(op) == Cardinality(Calls(op)) > Cardinality(Ends(op))

Collaborators == {"get_table_info", "llm_sql", "db.run", "llm_answer"}

Running == {op \in Collaborators : InProgress(op)}

\* t occurs in s as a run of consecutive elements
IsInfix(t, s) ==
    \E i \in 0..(Len(s) - Len(t)) : \A k \in 1..Len(t) : s[i + k] = t[k]

IsPrefix(a, b) ==
    Len(a) <= Len(b) /\ \A k \in 1..Len(a) : b[k] = a[k]

\* a and b are the same character up to the case of a letter
SameLetter(a, b) ==
    a = b \/ \E n \in 1..26 : {a, b} = {LowerLetters[n], UpperLetters[n]}

\* the phrase w occurs in s at offset i, letters compared without case
OccursAtCI(w, s, i) ==
    i + Len(w) <= Len(s) /\ \A k \in 1..Len(w) : SameLetter(s[i + k], w[k])

\* s without its first a and last b characters is s with the whitespace at
\* both ends removed
IsTrimCut(s, a, b) ==
    /\ a + b <= Len(s)
    /\ \A k \in 1..a : s[k] \in Whitespace
    /\ \A k \in (Len(s) - b + 1)..Len(s) : s[k] \in Whitespace
    /\ a + b < Len(s) => s[a + 1] \notin Whitespace /\ s[Len(s) - b] \notin Whitespace

Cut(s, a, b) == SubSeq(s, a + 1, Len(s) - b)

StartsWithKeywordCI(t) ==
    \E k \in 1..Len(valid_keywords) : OccursAtCI(valid_keywords[k], t, 0)

ContainsPraiseCI(q) ==
    \E k \in 1..Len(praising_words) :
        \E i \in 0..Len(q) : OccursAtCI(praising_words[k], q, i)

-----------------------------------------------------------------------------
\* C1: a statement is handed to db.run only after validate_sql_query has
\* accepted the synthesized text in the same call, the text handed over is
\* the value the validator returned (the synthesized text trimmed), and
\* nothing is run once the validator has rejected the text.
C1_OnlyValidatedIsRun ==
    /\ \A i \in Calls("db.run") :
         \E j \in 1..(i - 1) :
            /\ trace[j].op = "validate"
            /\ trace[j].ph = "return"
            /\ trace[j].val = trace[i].val
            /\ \E a, b \in 0..Len(query) :
                  IsTrimCut(query, a, b) /\ trace[j].val = Cut(query, a, b)
    /\ Raises("validate") # {} => Calls("db.run") = {}

\* in a session's second call, a statement that differs from the synthesized
\* text (it was trimmed) is run
WitC1 ==
    /\ Len(chat_history) >= 4
    /\ \E i \in Calls("db.run") : trace[i].val # query

\* C2: validate_sql_query(s) succeeds exactly when s without its leading and
\* trailing whitespace starts, letters compared without case, with one of the
\* eight keywords; it then returns that trimmed text unchanged, and
\* otherwise raises the invalid-query error.
C2_ValidatorAllowList ==
    tB \in {"run", "running", "done"} =>
        LET accepted == ~validated.raised IN
        /\ accepted <=>
             \E a, b \in 0..Len(query) :
                IsTrimCut(query, a, b) /\ StartsWithKeywordCI(Cut(query, a, b))
        /\ accepted =>
             \E a, b \in 0..Len(query) :
                IsTrimCut(query, a, b) /\ validated.value = Cut(query, a, b)
        /\ ~accepted =>
             /\ validated.value[1] = "Invalid SQL query generated: "
             /\ Raises("validate") # {}

\* a text in lower case with whitespace around it is accepted and trimmed
WitC2 ==
    /\ tB = "run"
    /\ Len(validated.value) < Len(query)
    /\ \E i \in 1..Len(validated.value) :
          \E n \in 1..26 : validated.value[i] = LowerLetters[n]

\* C3: execute_sql_and_get_response never raises; when the validator rejects
\* the text or db.run raises it returns a failure text containing str(e),
\* and when db.run returns it returns exactly db.run's value.
C3_ExecutorReturnsValue ==
    /\ tB # "raised"
    /\ tB = "done" =>
         /\ response # None
         /\ \A i \in Raises("validate") \cup Raises("db.run") :
               /\ response[1] = "Error executing SQL query: "
               /\ IsInfix(trace[i].val, response)
         /\ \A i \in Returns("db.run") : response = trace[i].val

\* "DROP TABLE x" against a connection that raises
WitC3 ==
    /\ tB = "done"
    /\ query = <<"D","R","O","P"," ","T","A","B","L","E"," ","x">>
    /\ Raises("db.run") # {}

\* C4: a question containing one of the courtesy phrases as a substring,
\* letters compared without case, gets the fixed reply with no schema fetch,
\* database statement or completion call; any other question starts the
\* pipeline.
C4_CourtesyShortCircuit ==
    pc # "called" =>
        IF ContainsPraiseCI(user_query)
        THEN pc = "done" /\ ret = CourtesyReply /\ trace = <<>>
        ELSE pc = "done" => (ret # CourtesyReply /\ trace # <<>>)

\* a real question that merely contains "ok" is answered with the reply
WitC4 ==
    /\ pc = "done"
    /\ ret = CourtesyReply
    /\ user_query = <<"l","o","o","k"," ","u","p"," ","b","o","b">>

\* C5: no exception leaves get_response; every failure of a completion call
\* (building the chains included) or of a schema fetch is returned as a text
\* containing str(e).
C5_NoExceptionEscapes ==
    /\ pc # "raised"
    /\ pc = "done" =>
         /\ ret # None
         /\ \A i \in Raises("llm_sql") \cup Raises("llm_answer")
                       \cup Raises("get_table_info") :
               IsInfix(trace[i].val, ret)

\* C6: once the executor has returned its result, the answer chain is
\* invoked with it, and no more than once.
C6_ResultConsumedOnce ==
    /\ Cardinality(Calls("llm_answer")) <= 1
    /\ (pc = "done" /\ tB = "done") =>
          \E i \in Calls("llm_answer") : trace[i].val[4] = response

\* the answer chain was invoked once with the question, the synthesized
\* query and the executor's result, and its output was returned
AnswerRoundTrip ==
    /\ Cardinality(Calls("llm_answer")) = 1
    /\ \E i \in Calls("llm_answer") :
          /\ trace[i].val[2] = user_query
          /\ \E j \in Returns("llm_sql") : trace[i].val[3] = trace[j].val
          /\ trace[i].val[4] = response
          /\ \A r \in Returns("db.run") : trace[i].val[4] = trace[r].val
    /\ \E k \in Returns("llm_answer") : ret = trace[k].val

ForwardOrder ==
    /\ \A i \in Calls("llm_sql") :
          \E j \in Returns("get_table_info") : j < i
    /\ \A i \in Ends("validate") : \E j \in Returns("llm_sql") : j < i
    /\ \A i \in Calls("db.run") : \E j \in Returns("validate") : j < i
    /\ \A i \in Calls("llm_answer") :
          /\ \E j \in Ends("validate") : j < i
          /\ \A j \in Calls("db.run") : \E k \in Ends("db.run") : j < k /\ k < i

AnyRaise ==
    \E i \in DOMAIN trace : trace[i].ph = "raise"

\* C8: within one call the collaborator calls come one after another in the
\* forward order and no two of them are ever in progress at the same time
\* (in particular not a schema fetch and the database statement); a call
\* that goes through the pipeline without a failure makes exactly two
\* completion calls and one database statement.
C8_OneCallAtATime ==
    /\ Cardinality(Running) <= 1
    /\ ForwardOrder
    /\ (pc = "done" /\ ~ContainsPraiseCI(user_query) /\ ~AnyRaise) =>
          /\ Cardinality(Calls("llm_sql") \cup Calls("llm_answer")) = 2
          /\ Cardinality(Calls("db.run")) = 1

\* C9: one call of execute_sql_and_get_response enters db.run at most once:
\* once when the validator accepted the text, whether or not the statement
\* then fails, never when it rejected it; a failure is returned, not retried.
C9_AtMostOneRun ==
    /\ Cardinality(Calls("db.run")) <= 1
    /\ Raises("validate") # {} => Calls("db.run") = {}
    /\ tB = "done" =>
          Cardinality(Calls("db.run")) = IF Returns("validate") # {} THEN 1 ELSE 0
    /\ Raises("db.run") # {} =>
          tB = "done" /\ response[1] = "Error executing SQL query: "

\* a statement failed and its error was returned after the single attempt
WitC9 ==
    /\ Cardinality(Calls("db.run")) = 1
    /\ Cardinality(Raises("db.run")) = 1
    /\ tB = "done"

Alternates(h) ==
    /\ h[1] = Greeting
    /\ \A i \in 2..Len(h) : h[i].role = IF i % 2 = 0 THEN "Human" ELSE "AI"

AllBlank(s) == \A k \in 1..Len(s) : s[k] \in Whitespace

====
